---------------------------- MODULE Spec2Model ----------------------------
(***************************************************************************)
(* Byte-oriented framing protocol of ufsm00292-pse.                        *)
(*                                                                         *)
(*   t3/atividade_entrega_fms_function_pointers.c : the frame codec        *)
(*       (protocol_create_message, protocol_calculate_checksum) and the    *)
(*       byte-at-a-time parser driven by a table of state functions.       *)
(*   t4/atividade_entrega_fms_protothreads.c : the transmitter and         *)
(*       receiver protothreads, the simulated channel and the timer.       *)
(*                                                                         *)
(* C objects are records, C arrays are functions over 0..size-1, and a C   *)
(* function that writes through pointers is an operator returning the      *)
(* record of everything it wrote.  uint8_t arithmetic is written % 256.    *)
(***************************************************************************)
EXTENDS Integers, Sequences, FiniteSets, TLC

(***************************************************************************)
(* Program constants                                                       *)
(***************************************************************************)
STX_BYTE == 2
ETX_BYTE == 3
ACK_BYTE == 6
NACK_BYTE == 21
MAX_DATA_SIZE == 256
TIMEOUT_MS == 1000
MAX_RETRIES == 3

PROTOCOL_SUCCESS == 0
PROTOCOL_ERROR == -1
PROTOCOL_WAITING == -2
PROTOCOL_TIMEOUT == -2
PROTOCOL_INVALID_PARAM == -3

\* ProtocolStates
ST_STX == 0
ST_QTD == 1
ST_DATA == 2
ST_CHK == 3
ST_ETX == 4

\* uint8_t
UINT8_MOD == 256
Byte == 0 .. (UINT8_MOD - 1)

\* the destination buffers the callers pass: uint8_t [MAX_DATA_SIZE + 10]
BUFFER_CAP == MAX_DATA_SIZE + 10

(***************************************************************************)
(* Bounds of the model                                                     *)
(***************************************************************************)
\* bytes fed to the parser by the free byte feeder (SpecParser)
MaxFeed == 7
\* length of the enumerated short payloads
MaxLen == 2
\* noise bytes and frames fed to the parser by the stream driver (SpecStream)
MaxNoise == 2
MaxFrames == 2
\* clock ticks the simulated clock may advance in all
MaxTicks == 8
\* protothreads_send_data calls that are accepted in one run
MaxSubmits == 2

\* byte values the free feeder draws from: both markers, the zero length,
\* small lengths, and a value that makes the 8-bit checksum wrap
ParserBytes == {0, 1, STX_BYTE, ETX_BYTE, 255}

(***************************************************************************)
(* Small helpers                                                           *)
(***************************************************************************)
\* A C array of bytes is kept as [cap, fill, w]: cap cells, of which cell i
\* holds w[i + 1] for i < Len(w) and fill beyond; w never ends with fill, so
\* equal arrays are equal records.  fill is 0 for static and memset storage
\* and any byte for an uninitialised automatic array.
ArrayOf(n, r) == [cap |-> n, fill |-> r, w |-> <<>>]

\* arr[i]
Get(arr, i) == IF i < Len(arr.w) THEN arr.w[i + 1] ELSE arr.fill

\* s without the cells at its end that hold fill
Trim(fill, s) ==
    LET k == CHOOSE k \in 0 .. Len(s) :
                 /\ (k = 0 \/ s[k] # fill)
                 /\ \A j \in (k + 1) .. Len(s) : s[j] = fill
    IN  SubSeq(s, 1, k)

\* the array with cells 0 .. n - 1 overwritten by cell(i), i < n
PutCells(arr, n, cell(_)) ==
    LET m == IF n > Len(arr.w) THEN n ELSE Len(arr.w)
    IN  [arr EXCEPT !.w = Trim(arr.fill,
                               [j \in 1 .. m |->
                                  IF j <= n THEN cell(j - 1) ELSE arr.w[j]])]

\* arr[i] = v
Put(arr, i, v) ==
    LET cell(j) == IF j = i THEN v ELSE Get(arr, j)
    IN  PutCells(arr, IF i + 1 > Len(arr.w) THEN i + 1 ELSE Len(arr.w), cell)

\* the first n bytes of a C array, as a sequence
Prefix(arr, n) == [i \in 1 .. n |-> Get(arr, i - 1)]

\* payload of n bytes all equal to b
Fill(n, b) == [i \in 1 .. n |-> b]

VARIABLES
    handler,        \* t3: ProtocolHandler
    in_byte,        \* t3: the byte last passed to protocol_process_byte
    fed,            \* t3: number of bytes fed so far by the free feeder
    stream,         \* t3 drivers: bytes still to be fed to the parser
    outcomes,       \* t3 drivers: return codes of the bytes of the current unit
    unit,           \* t3 drivers: what is being fed (kind, payload, ...)
    codec,          \* t3 codec driver: arguments and results of protocol_create_message
    twin,           \* t3: a second ProtocolHandler, of a second caller
    system_time_ms, \* t4: the simulated clock
    channel,        \* t4: comm_channel_t channel
    tx_state,       \* t4: transmitter_state_t tx_state (with the thread's static ack_value)
    rx_state,       \* t4: receiver_state_t rx_state (with the thread's static incoming_byte)
    turn,           \* t4: position in protothreads_schedule: "tx" before the
                    \*     transmitter's call (and between schedules), "rx" before the receiver's
    submits,        \* t4: number of successful protothreads_send_data calls so far
    tx_sends,       \* t4: channel_send calls made by the last transmitter call
    send_ret,       \* t4: return code of the last protothreads_send_data call
    test_timer,     \* t4: the timer_t of test_timer_functionality
    advanced,       \* t4: the time advanced since that timer was set
    attempt         \* t4: channel_send calls since the last accepted
                    \*     protothreads_send_data, up to the completion

t3vars == <<handler, in_byte, fed, stream, outcomes, unit, codec, twin>>
t4vars == <<system_time_ms, channel, tx_state, rx_state, turn, submits,
            tx_sends, send_ret, test_timer, advanced, attempt>>
vars == <<handler, in_byte, fed, stream, outcomes, unit, codec, twin,
          system_time_ms, channel, tx_state, rx_state, turn, submits,
          tx_sends, send_ret, test_timer, advanced, attempt>>

(***************************************************************************)
(* t3: the parser                                                          *)
(***************************************************************************)
\* protocol_init: the handler after construction
protocol_init ==
    [ current_state |-> ST_STX,
      qtd_dados     |-> 0,
      dados         |-> ArrayOf(MAX_DATA_SIZE, 0),
      dados_count   |-> 0,
      checksum_recv |-> 0,
      checksum_calc |-> 0,
      message_ready |-> FALSE,
      last_result   |-> PROTOCOL_WAITING ]

protocol_reset(h) ==
    [h EXCEPT !.current_state = ST_STX,
              !.dados_count   = 0,
              !.checksum_calc = 0,
              !.message_ready = FALSE,
              !.last_result   = PROTOCOL_WAITING]

\* each state function returns the handler it leaves and its return code
\* the start test also taking the end marker
state_wait_stx_either(h, byte) ==
    IF byte = STX_BYTE \/ byte = ETX_BYTE
    THEN [h |-> [h EXCEPT !.current_state = ST_QTD,
                          !.dados_count   = 0,
                          !.checksum_calc = 0,
                          !.message_ready = FALSE],
          ret |-> PROTOCOL_WAITING]
    ELSE [h |-> h, ret |-> PROTOCOL_WAITING]

\* the start marker accepted without clearing the count and the running
\* checksum
state_wait_stx_keep(h, byte) ==
    IF byte = STX_BYTE
    THEN [h |-> [h EXCEPT !.current_state = ST_QTD,
                          !.message_ready = FALSE],
          ret |-> PROTOCOL_WAITING]
    ELSE [h |-> h, ret |-> PROTOCOL_WAITING]

state_wait_stx(h, byte) ==
    IF byte = STX_BYTE
    THEN [h |-> [h EXCEPT !.current_state = ST_QTD,
                          !.dados_count   = 0,
                          !.checksum_calc = 0,
                          !.message_ready = FALSE],
          ret |-> PROTOCOL_WAITING]
    ELSE [h |-> h, ret |-> PROTOCOL_WAITING]

\* the length byte taken without the test byte > 0
state_wait_qtd_any(h, byte) ==
    [h |-> [h EXCEPT !.qtd_dados = byte, !.current_state = ST_DATA],
     ret |-> PROTOCOL_WAITING]

state_wait_qtd(h, byte) ==
    IF byte > 0
    THEN [h |-> [h EXCEPT !.qtd_dados = byte, !.current_state = ST_DATA],
          ret |-> PROTOCOL_WAITING]
    ELSE [h |-> [h EXCEPT !.current_state = ST_STX],
          ret |-> PROTOCOL_WAITING]

\* the end-of-data test written > instead of >=
state_wait_data_gt(h, byte) ==
    LET count == (h.dados_count + 1) % UINT8_MOD
        h1 == [h EXCEPT !.dados = Put(@, h.dados_count, byte),
                        !.checksum_calc = (h.checksum_calc + byte) % UINT8_MOD,
                        !.dados_count = count]
    IN  [h |-> IF count > h1.qtd_dados
               THEN [h1 EXCEPT !.current_state = ST_CHK]
               ELSE h1,
         ret |-> PROTOCOL_WAITING]

state_wait_data(h, byte) ==
    LET count == (h.dados_count + 1) % UINT8_MOD
        h1 == [h EXCEPT !.dados = Put(@, h.dados_count, byte),
                        !.checksum_calc = (h.checksum_calc + byte) % UINT8_MOD,
                        !.dados_count = count]
    IN  [h |-> IF count >= h1.qtd_dados
               THEN [h1 EXCEPT !.current_state = ST_CHK]
               ELSE h1,
         ret |-> PROTOCOL_WAITING]

state_wait_chk(h, byte) ==
    [h |-> [h EXCEPT !.checksum_recv = byte, !.current_state = ST_ETX],
     ret |-> PROTOCOL_WAITING]

\* the end test without the comparison of the checksums
state_wait_etx_nochk(h, byte) ==
    IF byte = ETX_BYTE
    THEN [h |-> [h EXCEPT !.message_ready = TRUE, !.current_state = ST_STX],
          ret |-> PROTOCOL_SUCCESS]
    ELSE [h |-> [h EXCEPT !.current_state = ST_STX],
          ret |-> PROTOCOL_ERROR]

state_wait_etx(h, byte) ==
    IF byte = ETX_BYTE /\ h.checksum_calc = h.checksum_recv
    THEN [h |-> [h EXCEPT !.message_ready = TRUE, !.current_state = ST_STX],
          ret |-> PROTOCOL_SUCCESS]
    ELSE [h |-> [h EXCEPT !.current_state = ST_STX],
          ret |-> PROTOCOL_ERROR]

\* handler->state_functions[handler->current_state], as protocol_init fills it
state_functions(h, byte) ==
    CASE h.current_state = ST_STX  -> state_wait_stx(h, byte)
      [] h.current_state = ST_QTD  -> state_wait_qtd(h, byte)
      [] h.current_state = ST_DATA -> state_wait_data(h, byte)
      [] h.current_state = ST_CHK  -> state_wait_chk(h, byte)
      [] h.current_state = ST_ETX  -> state_wait_etx(h, byte)

\* the handler after the call; the value returned is its last_result
protocol_process_byte(h, byte) ==
    LET r == state_functions(h, byte)
    IN  [r.h EXCEPT !.last_result = r.ret]

protocol_message_ready(h) == h.message_ready

protocol_get_data(h) == h.dados

protocol_get_data_count(h) == h.qtd_dados

(***************************************************************************)
(* t3: the codec                                                           *)
(***************************************************************************)
\* uint8_t checksum = 0;
\* for (uint8_t i = 0; i < qtd; i++) checksum += dados[i];
\* run[lo, hi, c] is the checksum after the iterations i = lo .. hi - 1
\* entered with checksum c: one iteration, or the first half of them
\* followed by the second half
\* (checksum_loop_nowrap: the same loop with a sum that saturates at 255)
checksum_loop_nowrap(dados, qtd) ==
    LET run[lo \in 0 .. qtd, hi \in 0 .. qtd, c \in Nat] ==
            IF lo >= hi THEN c
            ELSE IF hi = lo + 1
                 THEN IF c + dados[lo + 1] >= UINT8_MOD
                      THEN UINT8_MOD - 1
                      ELSE c + dados[lo + 1]
                 ELSE run[(lo + hi) \div 2, hi,
                          run[lo, (lo + hi) \div 2, c]]
    IN  run[0, qtd, 0]

checksum_loop(dados, qtd) ==
    LET run[lo \in 0 .. qtd, hi \in 0 .. qtd, c \in Byte] ==
            IF lo >= hi THEN c
            ELSE IF hi = lo + 1
                 THEN (c + dados[lo + 1]) % UINT8_MOD
                 ELSE run[(lo + hi) \div 2, hi,
                          run[lo, (lo + hi) \div 2, c]]
    IN  run[0, qtd, 0]

\* dados is the payload as a sequence (<<>> also stands for a null pointer)
protocol_calculate_checksum(dados, qtd) ==
    IF dados = <<>> \/ qtd = 0 THEN 0 ELSE checksum_loop(dados, qtd)

\* the encoder storing the start marker and the frame size before it
\* compares the size with the destination
protocol_create_message_early(dados, qtd, buffer, buffer_size) ==
    IF dados = <<>> \/ qtd = 0
    THEN [ret |-> PROTOCOL_INVALID_PARAM, buffer |-> buffer,
          buffer_size |-> buffer_size]
    ELSE LET checksum == protocol_calculate_checksum(dados, qtd)
             msg_size == (5 + qtd) % UINT8_MOD
         IN  IF buffer_size < msg_size
             THEN [ret |-> PROTOCOL_ERROR,
                   buffer |-> Put(buffer, 0, STX_BYTE),
                   buffer_size |-> msg_size]
             ELSE LET cell(i) == CASE i = 0 -> STX_BYTE
                                   [] i = 1 -> qtd
                                   [] i >= 2 /\ i < 2 + qtd -> dados[i - 1]
                                   [] i = 2 + qtd -> checksum
                                   [] i = 3 + qtd -> ETX_BYTE
                  IN  [ret |-> PROTOCOL_SUCCESS,
                       buffer |-> PutCells(buffer, 4 + qtd, cell),
                       buffer_size |-> msg_size]

\* what protocol_create_message returns and leaves in *buffer, *buffer_size
protocol_create_message(dados, qtd, buffer, buffer_size) ==
    IF dados = <<>> \/ qtd = 0
    THEN [ret |-> PROTOCOL_INVALID_PARAM, buffer |-> buffer,
          buffer_size |-> buffer_size]
    ELSE LET checksum == protocol_calculate_checksum(dados, qtd)
             msg_size == (5 + qtd) % UINT8_MOD
         IN  IF buffer_size < msg_size
             THEN [ret |-> PROTOCOL_ERROR, buffer |-> buffer,
                   buffer_size |-> buffer_size]
             ELSE LET cell(i) == CASE i = 0 -> STX_BYTE
                                   [] i = 1 -> qtd
                                   [] i >= 2 /\ i < 2 + qtd -> dados[i - 1]
                                   [] i = 2 + qtd -> checksum
                                   [] i = 3 + qtd -> ETX_BYTE
                  IN  [ret |-> PROTOCOL_SUCCESS,
                       buffer |-> PutCells(buffer, 4 + qtd, cell),
                       buffer_size |-> msg_size]

(***************************************************************************)
(* t4: timer and channel                                                   *)
(***************************************************************************)
\* pt.lc is 0 or the __LINE__ of the PT_WAIT_UNTIL / PT_YIELD it stopped at
LC_TX_WAIT_ACK == 252
LC_RX_WAIT_STX == 295
LC_RX_WAIT_QTD == 301
LC_RX_WAIT_DATA == 314
LC_RX_WAIT_CHK == 322
LC_RX_WAIT_ETX == 328
LC_RX_YIELD == 342

PT_WAITING == 0
PT_YIELDED == 1
PT_EXITED == 2
PT_ENDED == 3

\* receiver_state_t.state
RX_WAIT_STX == 0
RX_WAIT_QTD == 1
RX_WAIT_DATA == 2
RX_WAIT_CHK == 3
RX_WAIT_ETX == 4

timer_set(timer, now, timeout_ms) ==
    [start_time |-> now, timeout_ms |-> timeout_ms, active |-> TRUE]

\* the clock of the model stays below 2^32, and no timer is read with a
\* start_time ahead of the clock, so the unsigned difference never wraps
timer_expired(timer, now) ==
    IF ~timer.active THEN FALSE
    ELSE (now - timer.start_time) >= timer.timeout_ms

timer_stop(timer) == [timer EXCEPT !.active = FALSE]

(***************************************************************************)
(* The same timer in the full width of uint32_t.  A uint32_t value v is    *)
(* kept as [hi, lo] with v = hi * 2^16 + lo, and the sum and the           *)
(* difference are taken modulo 2^32 as the C operators take them.          *)
(***************************************************************************)
UINT16_MOD == 65536
uint32(hi, lo) == [hi |-> hi, lo |-> lo]

\* a + b in uint32_t
uint32_add(a, b) ==
    uint32((a.hi + b.hi + (a.lo + b.lo) \div UINT16_MOD) % UINT16_MOD,
           (a.lo + b.lo) % UINT16_MOD)

\* a + b does not fit uint32_t
uint32_carry(a, b) ==
    (a.hi + b.hi + (a.lo + b.lo) \div UINT16_MOD) >= UINT16_MOD

\* a - b in uint32_t
uint32_sub(a, b) ==
    uint32((a.hi - b.hi - (IF a.lo < b.lo THEN 1 ELSE 0)) % UINT16_MOD,
           (a.lo - b.lo) % UINT16_MOD)

\* a >= b
uint32_ge(a, b) == a.hi > b.hi \/ (a.hi = b.hi /\ a.lo >= b.lo)

\* lines 72..75, on uint32 values
timer_expired32(t, now) ==
    IF ~t.active THEN FALSE
    ELSE uint32_ge(uint32_sub(now, t.start_time), t.timeout_ms)

\* lines 82..84: system_time_ms += ms
advance_time(now, ms) == uint32_add(now, ms)

\* a timer_t that was never set
timer_unset ==
    [start_time |-> uint32(0, 0), timeout_ms |-> uint32(0, 0), active |-> FALSE]

\* attempt: sent, the channel_send calls made since protothreads_send_data
\* last accepted a payload, and done, whether a call of transmitter_thread
\* has left transmission_complete set since; sent is counted until done
NoAttempt == [sent |-> 0, done |-> FALSE]

\* advanced: the time advanced since the timer was set: low, its 32 low
\* bits, and over, whether it has reached 2^32;
\* and calls, the number of advance_time calls made so far
NoAdvance == [over |-> FALSE, low |-> uint32(0, 0), calls |-> 0]

\* static comm_channel_t channel = {0}; tx_buffer and tx_size are never
\* written or read by the program and are left out
channel_reset ==
    [ rx_buffer     |-> ArrayOf(BUFFER_CAP, 0),
      rx_size       |-> 0,
      rx_pos        |-> 0,
      tx_ready      |-> FALSE,
      rx_ready      |-> FALSE,
      ack_received  |-> FALSE,
      ack_value     |-> 0,
      simulate_loss |-> FALSE ]

channel_send(ch, data, size) ==
    LET ch1 == IF ~ch.simulate_loss
               THEN [ch EXCEPT !.rx_buffer =
                                   LET cell(i) == Get(data, i)
                                   IN  PutCells(@, size, cell),
                               !.rx_size  = size,
                               !.rx_pos   = 0,
                               !.rx_ready = TRUE]
               ELSE ch
    IN  [ch1 EXCEPT !.tx_ready = FALSE]

\* [ok, byte, ch]: the return value, *byte when ok, and the channel left
channel_receive_byte(ch) ==
    IF ch.rx_ready /\ ch.rx_pos < ch.rx_size
    THEN LET pos == (ch.rx_pos + 1) % UINT8_MOD
         IN  [ok |-> TRUE, byte |-> Get(ch.rx_buffer, ch.rx_pos),
              ch |-> [ch EXCEPT !.rx_pos = pos,
                                !.rx_ready = ~(pos >= ch.rx_size)]]
    ELSE [ok |-> FALSE, byte |-> 0, ch |-> ch]

channel_send_ack(ch, ack_type) ==
    [ch EXCEPT !.ack_received = TRUE, !.ack_value = ack_type]

\* [ok, ack_type, ch]
channel_ack_received(ch) ==
    IF ch.ack_received
    THEN [ok |-> TRUE, ack_type |-> ch.ack_value,
          ch |-> [ch EXCEPT !.ack_received = FALSE]]
    ELSE [ok |-> FALSE, ack_type |-> 0, ch |-> ch]

(***************************************************************************)
(* t4: the transmitter protothread.  One call runs from the resume point   *)
(* pt.lc to the next return.  Each piece returns                           *)
(*   [tx, ch, ret, sends] : tx_state and channel left, the PT_ code, and   *)
(*   the number of channel_send calls made during the call.                *)
(***************************************************************************)
\* static transmitter_state_t tx_state (zeroed); ack_value is the static
\* local of transmitter_thread
tx_state_zero ==
    [ lc            |-> 0,
      timer         |-> [start_time |-> 0, timeout_ms |-> 0, active |-> FALSE],
      data_to_send  |-> <<>>,
      data_size     |-> 0,
      message_buffer |-> ArrayOf(BUFFER_CAP, 0),
      message_size  |-> 0,
      retry_count   |-> 0,
      transmission_complete |-> FALSE,
      result        |-> 0,
      ack_value     |-> 0 ]

RECURSIVE tx_while(_, _, _, _)
RECURSIVE tx_wait_ack(_, _, _, _)

\* lines 274..279: after the while loop
tx_max_retries(tx, ch, sends) ==
    [tx |-> [tx EXCEPT !.result = PROTOCOL_TIMEOUT,
                       !.transmission_complete = TRUE,
                       !.lc = 0],
     ch |-> ch, ret |-> PT_ENDED, sends |-> sends]

tx_after_wait_nack_free(tx, ch, now, sends) ==
    IF timer_expired(tx.timer, now)
    THEN tx_while([tx EXCEPT !.retry_count = (@ + 1) % UINT8_MOD],
                  ch, now, sends)
    ELSE IF tx.ack_value = ACK_BYTE
         THEN [tx |-> [tx EXCEPT !.transmission_complete = TRUE,
                                 !.result = PROTOCOL_SUCCESS,
                                 !.lc = 0],
               ch |-> ch, ret |-> PT_EXITED, sends |-> sends]
         ELSE tx_while(tx, ch, now, sends)

\* lines 255..271: what follows a PT_WAIT_UNTIL whose condition held
tx_after_wait(tx, ch, now, sends) ==
    IF timer_expired(tx.timer, now)
    THEN tx_while([tx EXCEPT !.retry_count = (@ + 1) % UINT8_MOD],
                  ch, now, sends)
    ELSE IF tx.ack_value = ACK_BYTE
         THEN [tx |-> [tx EXCEPT !.transmission_complete = TRUE,
                                 !.result = PROTOCOL_SUCCESS,
                                 !.lc = 0],
               ch |-> ch, ret |-> PT_EXITED, sends |-> sends]
         ELSE IF tx.ack_value = NACK_BYTE
              THEN tx_while([tx EXCEPT !.retry_count = (@ + 1) % UINT8_MOD],
                            ch, now, sends)
              ELSE tx_while(tx, ch, now, sends)

\* line 252: PT_WAIT_UNTIL(channel_ack_received(&ack_value) || timer_expired)
tx_wait_ack(tx, ch, now, sends) ==
    LET a   == channel_ack_received(ch)
        tx1 == IF a.ok THEN [tx EXCEPT !.ack_value = a.ack_type] ELSE tx
    IN  IF a.ok \/ timer_expired(tx.timer, now)
        THEN tx_after_wait(tx1, a.ch, now, sends)
        ELSE [tx |-> tx1, ch |-> a.ch, ret |-> PT_WAITING, sends |-> sends]

tx_while_le(tx, ch, now, sends) ==
    IF tx.retry_count <= MAX_RETRIES
    THEN tx_wait_ack([tx EXCEPT !.timer = timer_set(tx.timer, now, TIMEOUT_MS),
                                !.lc = LC_TX_WAIT_ACK],
                     channel_send(ch, tx.message_buffer, tx.message_size),
                     now, sends + 1)
    ELSE tx_max_retries(tx, ch, sends)

\* lines 245..252: the head of the while loop, one transmission, the timer
tx_while(tx, ch, now, sends) ==
    IF tx.retry_count < MAX_RETRIES
    THEN tx_wait_ack([tx EXCEPT !.timer = timer_set(tx.timer, now, TIMEOUT_MS),
                                !.lc = LC_TX_WAIT_ACK],
                     channel_send(ch, tx.message_buffer, tx.message_size),
                     now, sends + 1)
    ELSE tx_max_retries(tx, ch, sends)

\* lines 233..243: PT_BEGIN to the while loop
tx_begin(tx, ch, now) ==
    LET r   == protocol_create_message(tx.data_to_send, tx.data_size,
                                       tx.message_buffer,
                                       BUFFER_CAP % UINT8_MOD)
        tx1 == [tx EXCEPT !.retry_count = 0,
                          !.transmission_complete = FALSE,
                          !.message_buffer = r.buffer,
                          !.message_size = r.buffer_size,
                          !.result = r.ret]
    IN  IF r.ret # PROTOCOL_SUCCESS
        THEN [tx |-> [tx1 EXCEPT !.lc = 0], ch |-> ch, ret |-> PT_EXITED,
              sends |-> 0]
        ELSE tx_while(tx1, ch, now, 0)

\* the switch of PT_BEGIN
transmitter_thread(tx, ch, now) ==
    IF tx.lc = LC_TX_WAIT_ACK
    THEN tx_wait_ack(tx, ch, now, 0)
    ELSE tx_begin(tx, ch, now)

(***************************************************************************)
(* t4: the receiver protothread.  Each piece returns [rx, ch, ret]: the    *)
(* rx_state and channel left and the PT_ code of the call.  A              *)
(* PT_WAIT_UNTIL whose condition holds falls through to the next           *)
(* statement within the same call.                                        *)
(***************************************************************************)
\* static receiver_state_t rx_state (zeroed); incoming_byte is the static
\* local of receiver_thread
rx_state_zero ==
    [ lc            |-> 0,
      rx_data       |-> ArrayOf(MAX_DATA_SIZE, 0),
      rx_count      |-> 0,
      expected_size |-> 0,
      checksum_calc |-> 0,
      checksum_recv |-> 0,
      state         |-> RX_WAIT_STX,
      message_received |-> FALSE,
      result        |-> 0,
      incoming_byte |-> 0 ]

RECURSIVE rx_while(_, _)
RECURSIVE rx_wait_stx(_, _)
RECURSIVE rx_wait_qtd(_, _)
RECURSIVE rx_for(_, _)
RECURSIVE rx_wait_data(_, _)

\* line 342: PT_YIELD sets lc and returns; resumed at its case label it
\* returns PT_YIELDED again
rx_yield(rx, ch) ==
    [rx |-> [rx EXCEPT !.lc = LC_RX_YIELD], ch |-> ch, ret |-> PT_YIELDED]

\* lines 328..342
rx_wait_etx(rx, ch) ==
    LET r   == channel_receive_byte(ch)
        rx1 == [rx EXCEPT !.lc = LC_RX_WAIT_ETX]
    IN  IF ~r.ok
        THEN [rx |-> rx1, ch |-> ch, ret |-> PT_WAITING]
        ELSE IF r.byte = ETX_BYTE /\ rx1.checksum_calc = rx1.checksum_recv
             THEN rx_yield([rx1 EXCEPT !.incoming_byte = r.byte,
                                      !.message_received = TRUE,
                                      !.result = PROTOCOL_SUCCESS],
                           channel_send_ack(r.ch, ACK_BYTE))
             ELSE rx_yield([rx1 EXCEPT !.incoming_byte = r.byte,
                                      !.result = PROTOCOL_ERROR],
                           channel_send_ack(r.ch, NACK_BYTE))

\* lines 322..325
rx_wait_chk(rx, ch) ==
    LET r   == channel_receive_byte(ch)
        rx1 == [rx EXCEPT !.lc = LC_RX_WAIT_CHK]
    IN  IF ~r.ok
        THEN [rx |-> rx1, ch |-> ch, ret |-> PT_WAITING]
        ELSE rx_wait_etx([rx1 EXCEPT !.incoming_byte = r.byte,
                                    !.checksum_recv = r.byte,
                                    !.state = RX_WAIT_ETX],
                         r.ch)

rx_wait_data_lost(rx, ch) ==
    LET r   == channel_receive_byte(ch)
        rx1 == [rx EXCEPT !.lc = LC_RX_WAIT_DATA]
    IN  IF ~r.ok
        THEN [rx |-> rx1, ch |-> ch, ret |-> PT_WAITING]
        ELSE rx_for([rx1 EXCEPT !.incoming_byte = r.byte,
                               !.checksum_calc = (@ + r.byte) % UINT8_MOD,
                               !.rx_count = (@ + 1) % UINT8_MOD],
                    r.ch)

\* lines 314..317: the body of the for loop, then rx_count++
rx_wait_data(rx, ch) ==
    LET r   == channel_receive_byte(ch)
        rx1 == [rx EXCEPT !.lc = LC_RX_WAIT_DATA]
    IN  IF ~r.ok
        THEN [rx |-> rx1, ch |-> ch, ret |-> PT_WAITING]
        ELSE rx_for([rx1 EXCEPT !.incoming_byte = r.byte,
                               !.rx_data = Put(@, rx1.rx_count, r.byte),
                               !.checksum_calc = (@ + r.byte) % UINT8_MOD,
                               !.rx_count = (@ + 1) % UINT8_MOD],
                    r.ch)

\* line 313: the test of the for loop; line 319 when it ends
rx_for(rx, ch) ==
    IF rx.rx_count < rx.expected_size
    THEN rx_wait_data(rx, ch)
    ELSE rx_wait_chk([rx EXCEPT !.state = RX_WAIT_CHK], ch)

\* lines 301..313
rx_wait_qtd(rx, ch) ==
    LET r   == channel_receive_byte(ch)
        rx1 == [rx EXCEPT !.lc = LC_RX_WAIT_QTD]
    IN  IF ~r.ok
        THEN [rx |-> rx1, ch |-> ch, ret |-> PT_WAITING]
        ELSE IF r.byte = 0
             THEN rx_while([rx1 EXCEPT !.incoming_byte = r.byte],
                           channel_send_ack(r.ch, NACK_BYTE))
             ELSE rx_for([rx1 EXCEPT !.incoming_byte = r.byte,
                                    !.expected_size = r.byte,
                                    !.state = RX_WAIT_DATA,
                                    !.rx_count = 0],
                         r.ch)

\* lines 295..298: a byte is taken from the channel at each evaluation
rx_wait_stx(rx, ch) ==
    LET r   == channel_receive_byte(ch)
        rx1 == [rx EXCEPT !.lc = LC_RX_WAIT_STX,
                          !.incoming_byte = IF r.ok THEN r.byte ELSE @]
    IN  IF r.ok /\ r.byte = STX_BYTE
        THEN rx_wait_qtd([rx1 EXCEPT !.state = RX_WAIT_QTD], r.ch)
        ELSE [rx |-> rx1, ch |-> r.ch, ret |-> PT_WAITING]

\* lines 288..295: the head of while (1)
rx_while(rx, ch) ==
    rx_wait_stx([rx EXCEPT !.state = RX_WAIT_STX,
                           !.rx_count = 0,
                           !.checksum_calc = 0,
                           !.message_received = FALSE],
                ch)

\* the switch of PT_BEGIN
receiver_thread(rx, ch) ==
    CASE rx.lc = LC_RX_WAIT_STX  -> rx_wait_stx(rx, ch)
      [] rx.lc = LC_RX_WAIT_QTD  -> rx_wait_qtd(rx, ch)
      [] rx.lc = LC_RX_WAIT_DATA -> rx_wait_data(rx, ch)
      [] rx.lc = LC_RX_WAIT_CHK  -> rx_wait_chk(rx, ch)
      [] rx.lc = LC_RX_WAIT_ETX  -> rx_wait_etx(rx, ch)
      [] rx.lc = LC_RX_YIELD     -> rx_yield(rx, ch)
      [] OTHER                   -> rx_while(rx, ch)

(***************************************************************************)
(* SpecParser: any caller of the parser.  After protocol_init it calls     *)
(* protocol_process_byte with arbitrary bytes and protocol_reset, in any   *)
(* order.                                                                  *)
(***************************************************************************)
NoUnit == [kind |-> "none"]
NoCodec == [phase |-> "none"]

\* the variables of the other program, in a specification that does not run it
T3Idle ==
    /\ handler = protocol_init
    /\ twin = protocol_init
    /\ in_byte = 0
    /\ fed = 0
    /\ stream = <<>>
    /\ outcomes = <<>>
    /\ unit = NoUnit
    /\ codec = NoCodec

T4Idle ==
    /\ system_time_ms = 0
    /\ channel = channel_reset
    /\ tx_state = tx_state_zero
    /\ rx_state = rx_state_zero
    /\ turn = "tx"
    /\ submits = 0
    /\ tx_sends = 0
    /\ send_ret = PROTOCOL_SUCCESS
    /\ test_timer = timer_unset
    /\ advanced = NoAdvance
    /\ attempt = NoAttempt

InitParser ==
    /\ T4Idle
    /\ handler = protocol_init
    /\ twin = protocol_init
    /\ in_byte = 0
    /\ fed = 0
    /\ stream = <<>>
    /\ outcomes = <<>>
    /\ unit = NoUnit
    /\ codec = NoCodec

ProcessByte ==
    /\ fed < MaxFeed
    /\ \E b \in ParserBytes :
          /\ handler' = protocol_process_byte(handler, b)
          /\ in_byte' = b
    /\ fed' = fed + 1
    /\ UNCHANGED <<stream, outcomes, unit, codec, twin>>
    /\ UNCHANGED t4vars

Reset ==
    /\ handler' = protocol_reset(handler)
    /\ UNCHANGED <<in_byte, fed, stream, outcomes, unit, codec, twin>>
    /\ UNCHANGED t4vars

NextParser == ProcessByte \/ Reset

SpecParser == InitParser /\ [][NextParser]_vars

(***************************************************************************)
(* C20 In every reachable state in which the parser awaits a start marker  *)
(*     (initially, after Complete, after Rejected, after a zero length     *)
(*     byte, after protocol_reset) the count of accumulated payload bytes  *)
(*     is 0 and the running checksum is 0.                                 *)
(***************************************************************************)
C20_ClearedInAwaitingStart ==
    handler.current_state = ST_STX =>
       /\ handler.dados_count = 0
       /\ handler.checksum_calc = 0

(***************************************************************************)
(* C6  The parser implements the transition table for every (state, byte): *)
(*     AwaitingStart keeps its state on a byte other than START_MARKER and *)
(*     moves to AwaitingLength on START_MARKER (count and accumulator      *)
(*     cleared); AwaitingLength returns to AwaitingStart on 0 and moves to *)
(*     AwaitingPayload on a nonzero byte, recording it; AwaitingPayload    *)
(*     appends the byte, adds it to the accumulator and becomes            *)
(*     AwaitingChecksum exactly when the count reaches the length;         *)
(*     AwaitingChecksum records the byte and moves to AwaitingEnd;         *)
(*     AwaitingEnd returns to AwaitingStart with Complete iff the byte is  *)
(*     END_MARKER and the checksums agree, Rejected otherwise.  Complete   *)
(*     and Rejected are returned only for a byte consumed in AwaitingEnd.  *)
(***************************************************************************)
C6_Row(h, b, h2) ==
    /\ h2.last_result \in {PROTOCOL_WAITING, PROTOCOL_SUCCESS, PROTOCOL_ERROR}
    /\ h2.last_result # PROTOCOL_WAITING => h.current_state = ST_ETX
    /\ h.current_state = ST_STX =>
          /\ h2.last_result = PROTOCOL_WAITING
          /\ b # STX_BYTE => h2.current_state = ST_STX
          /\ b = STX_BYTE => /\ h2.current_state = ST_QTD
                             /\ h2.dados_count = 0
                             /\ h2.checksum_calc = 0
    /\ h.current_state = ST_QTD =>
          /\ h2.last_result = PROTOCOL_WAITING
          /\ b = 0 => h2.current_state = ST_STX
          /\ b > 0 => h2.current_state = ST_DATA /\ h2.qtd_dados = b
    /\ h.current_state = ST_DATA =>
          /\ h2.last_result = PROTOCOL_WAITING
          /\ h2.dados_count = h.dados_count + 1
          /\ Get(h2.dados, h.dados_count) = b
          /\ \A i \in 0 .. (h.dados_count - 1) :
                Get(h2.dados, i) = Get(h.dados, i)
          /\ h2.checksum_calc = (h.checksum_calc + b) % UINT8_MOD
          /\ h2.current_state =
                IF h2.dados_count = h.qtd_dados THEN ST_CHK ELSE ST_DATA
    /\ h.current_state = ST_CHK =>
          /\ h2.last_result = PROTOCOL_WAITING
          /\ h2.checksum_recv = b
          /\ h2.current_state = ST_ETX
    /\ h.current_state = ST_ETX =>
          /\ h2.current_state = ST_STX
          /\ h2.last_result =
                IF b = ETX_BYTE /\ h.checksum_recv = h.checksum_calc
                THEN PROTOCOL_SUCCESS ELSE PROTOCOL_ERROR

C6_TransitionTable ==
    [][fed' = fed + 1 => C6_Row(handler, in_byte', handler')]_vars

\* a frame went through every row of the table and was accepted
C6_Witness ==
    /\ handler.last_result = PROTOCOL_SUCCESS
    /\ handler.qtd_dados = 2
    /\ handler.current_state = ST_STX

(***************************************************************************)
(* Drivers of the t3 parser: a stream of bytes is loaded and then fed to   *)
(* protocol_process_byte one byte per step.                                *)
(***************************************************************************)
\* the sum of the bytes of s, not reduced
SumBytes(s) ==
    LET sum[lo \in 1 .. Len(s) + 1, hi \in 0 .. Len(s)] ==
            IF lo > hi THEN 0
            ELSE IF lo = hi THEN s[lo]
                 ELSE sum[lo, (lo + hi) \div 2] + sum[(lo + hi) \div 2 + 1, hi]
    IN  sum[1, Len(s)]

(***************************************************************************)
(* C25 After protocol_init and any calls of protocol_process_byte and      *)
(*     protocol_reset: whenever message_ready is true the parser awaits a  *)
(*     start marker, the number of bytes stored equals the length that     *)
(*     protocol_get_data_count returns, that length is at least 1, and the *)
(*     received checksum is the sum of the stored bytes modulo 256.        *)
(***************************************************************************)
C25_ReadyConsistent ==
    protocol_message_ready(handler) =>
       /\ handler.current_state = ST_STX
       /\ handler.dados_count = protocol_get_data_count(handler)
       /\ protocol_get_data_count(handler) >= 1
       /\ handler.checksum_recv =
             SumBytes(Prefix(protocol_get_data(handler),
                             handler.dados_count)) % UINT8_MOD

\* a message of two bytes is ready whose sum wraps in 8 bits
C25_Witness ==
    /\ protocol_message_ready(handler)
    /\ protocol_get_data_count(handler) = 2
    /\ SumBytes(Prefix(protocol_get_data(handler), 2)) >= UINT8_MOD

\* the frame the tests write out by hand for a payload:
\* STX, QTD, the data, CHK, ETX
WireFrame(p) ==
    <<STX_BYTE, Len(p)>> \o p \o <<SumBytes(p) % UINT8_MOD, ETX_BYTE>>

\* one call of protocol_process_byte on the next byte of the stream
Feed ==
    /\ stream # <<>>
    /\ handler' = protocol_process_byte(handler, Head(stream))
    /\ in_byte' = Head(stream)
    /\ stream' = Tail(stream)
    /\ outcomes' = Append(outcomes, handler'.last_result)
    /\ unit' = IF unit.kind = "none" THEN unit
               ELSE [unit EXCEPT
                       !.n_complete =
                           IF handler'.last_result = PROTOCOL_SUCCESS
                           THEN @ + 1 ELSE @,
                       !.n_rejected =
                           IF handler'.last_result = PROTOCOL_ERROR
                           THEN @ + 1 ELSE @]
    /\ UNCHANGED <<fed, codec, twin>>
    /\ UNCHANGED t4vars

(***************************************************************************)
(* SpecStream: after protocol_init the parser is fed noise bytes, valid    *)
(* frames and frames with one corrupted byte, in any order, without being  *)
(* reset or initialised again.                                             *)
(***************************************************************************)
\* payloads whose checksum wraps, and one made of the two markers
StreamPayloads ==
    {Fill(n, 255) : n \in 1 .. MaxLen} \cup {<<STX_BYTE, ETX_BYTE>>}
NoiseBytes == {0, STX_BYTE, ETX_BYTE}
CorruptBytes == {0, STX_BYTE, ETX_BYTE, 255}

\* unit: the unit being fed and what was fed before it
\*   kind        "noise", "wire" (a valid frame), "badchk", "badetx"
\*   payload     its payload (the byte itself for noise)
\*   start_state handler.current_state when its first byte was fed
\*   prev_kind, prev_start   the same for the unit before it
\*   before      what was fed before it: "clean" only noise without
\*               STX_BYTE (or nothing), "stx" only noise, with an STX_BYTE,
\*               "frames" at least one frame
\*   n_complete, n_rejected  PROTOCOL_SUCCESS and PROTOCOL_ERROR returned
\*               since protocol_init
StreamStart ==
    [ kind |-> "start", payload |-> <<>>, start_state |-> ST_STX,
      prev_kind |-> "start", prev_start |-> ST_STX, before |-> "clean",
      n_complete |-> 0, n_rejected |-> 0, frames |-> 0, noise |-> 0 ]

NextUnit(kind, payload) ==
    [unit EXCEPT
       !.kind = kind,
       !.payload = payload,
       !.start_state = handler.current_state,
       !.prev_kind = unit.kind,
       !.prev_start = unit.start_state,
       !.before = CASE unit.kind = "start" -> "clean"
                    [] unit.kind = "noise" ->
                         IF unit.before = "frames" THEN "frames"
                         ELSE IF unit.before = "stx"
                                 \/ unit.payload = <<STX_BYTE>>
                              THEN "stx" ELSE "clean"
                    [] OTHER -> "frames",
       !.frames = IF kind = "noise" THEN @ ELSE @ + 1,
       !.noise = IF kind = "noise" THEN @ + 1 ELSE @]

InitStream ==
    /\ T4Idle
    /\ handler = protocol_init
    /\ twin = protocol_init
    /\ in_byte = 0
    /\ fed = 0
    /\ stream = <<>>
    /\ outcomes = <<>>
    /\ unit = StreamStart
    /\ codec = NoCodec

LoadNoise ==
    /\ stream = <<>>
    /\ unit.noise < MaxNoise
    /\ \E b \in NoiseBytes :
          /\ stream' = <<b>>
          /\ unit' = NextUnit("noise", <<b>>)
    /\ outcomes' = <<>>
    /\ UNCHANGED <<handler, in_byte, fed, codec, twin>>
    /\ UNCHANGED t4vars

LoadWire ==
    /\ stream = <<>>
    /\ unit.frames < MaxFrames
    /\ \E p \in StreamPayloads :
          /\ stream' = WireFrame(p)
          /\ unit' = NextUnit("wire", p)
    /\ outcomes' = <<>>
    /\ UNCHANGED <<handler, in_byte, fed, codec, twin>>
    /\ UNCHANGED t4vars

\* a valid frame whose checksum byte was replaced by another value
LoadBadChk ==
    /\ stream = <<>>
    /\ unit.frames < MaxFrames
    /\ \E p \in StreamPayloads, v \in CorruptBytes :
          /\ v # WireFrame(p)[Len(p) + 3]
          /\ stream' = [WireFrame(p) EXCEPT ![Len(p) + 3] = v]
          /\ unit' = NextUnit("badchk", p)
    /\ outcomes' = <<>>
    /\ UNCHANGED <<handler, in_byte, fed, codec, twin>>
    /\ UNCHANGED t4vars

\* a valid frame whose terminator was replaced by another value
LoadBadEtx ==
    /\ stream = <<>>
    /\ unit.frames < MaxFrames
    /\ \E p \in StreamPayloads, v \in CorruptBytes :
          /\ v # ETX_BYTE
          /\ stream' = [WireFrame(p) EXCEPT ![Len(p) + 4] = v]
          /\ unit' = NextUnit("badetx", p)
    /\ outcomes' = <<>>
    /\ UNCHANGED <<handler, in_byte, fed, codec, twin>>
    /\ UNCHANGED t4vars

NextStream == LoadNoise \/ LoadWire \/ LoadBadChk \/ LoadBadEtx \/ Feed

SpecStream == InitStream /\ [][NextStream]_vars

\* the parser holds a complete message with payload p
Delivered(h, p) ==
    /\ protocol_message_ready(h)
    /\ protocol_get_data_count(h) = Len(p)
    /\ Prefix(protocol_get_data(h), Len(p)) = p

\* n return codes: PROTOCOL_WAITING for every byte but the last, then last
WaitingThen(n, last) ==
    [i \in 1 .. n |-> IF i = n THEN last ELSE PROTOCOL_WAITING]

(***************************************************************************)
(* C4  Resynchronisation: a valid frame whose checksum byte or terminator  *)
(*     was replaced by a different value, fed to a parser that awaits a    *)
(*     start marker, is answered Waiting for every byte but the last and   *)
(*     Rejected on the last, and message-ready is false; a valid frame fed *)
(*     right after it, without protocol_init or protocol_reset, is         *)
(*     answered Complete on its last byte and delivers its payload.        *)
(***************************************************************************)
C4_Resync ==
    stream = <<>> =>
       /\ (unit.kind \in {"badchk", "badetx"} /\ unit.start_state = ST_STX) =>
             /\ outcomes = WaitingThen(Len(unit.payload) + 4, PROTOCOL_ERROR)
             /\ ~protocol_message_ready(handler)
       /\ (/\ unit.kind = "wire"
           /\ unit.prev_kind \in {"badchk", "badetx"}
           /\ unit.prev_start = ST_STX) =>
             /\ outcomes = WaitingThen(Len(unit.payload) + 4, PROTOCOL_SUCCESS)
             /\ Delivered(handler, unit.payload)

\* a frame with a bad checksum was rejected and the next frame delivered
C4_Witness ==
    /\ stream = <<>>
    /\ unit.kind = "wire"
    /\ unit.prev_kind = "badchk"
    /\ unit.prev_start = ST_STX
    /\ unit.n_rejected = 1
    /\ unit.n_complete = 1
    /\ Delivered(handler, unit.payload)

(***************************************************************************)
(* C5  as stated: noise bytes of any value fed to a parser in              *)
(*     AwaitingStart and followed by one valid frame give exactly one      *)
(*     Complete, carrying the payload of the frame, and no Rejected.       *)
(***************************************************************************)
C5_AnyNoise ==
    (stream = <<>> /\ unit.kind = "wire" /\ unit.before # "frames") =>
       /\ unit.n_complete = 1
       /\ unit.n_rejected = 0
       /\ Delivered(handler, unit.payload)

(***************************************************************************)
(* C5  amended: noise bytes none of which is START_MARKER (0x02), fed to a *)
(*     parser in AwaitingStart and followed by one valid frame, give       *)
(*     exactly one Complete, on the last byte of the frame and carrying    *)
(*     its payload, and no Rejected.                                       *)
(***************************************************************************)
C5_NoiseWithoutStart ==
    (stream = <<>> /\ unit.kind = "wire" /\ unit.before = "clean") =>
       /\ unit.n_complete = 1
       /\ unit.n_rejected = 0
       /\ outcomes = WaitingThen(Len(unit.payload) + 4, PROTOCOL_SUCCESS)
       /\ Delivered(handler, unit.payload)

\* two noise bytes, then a frame that was delivered
C5_Witness ==
    /\ stream = <<>>
    /\ unit.kind = "wire"
    /\ unit.before = "clean"
    /\ unit.noise = 2
    /\ unit.n_complete = 1
    /\ Delivered(handler, unit.payload)

(***************************************************************************)
(* SpecCodec: one payload and one destination size are drawn; the driver   *)
(* computes the checksum, encodes the payload with                         *)
(* protocol_create_message and feeds the frame it produced, in the length  *)
(* it reported, to a freshly initialised parser.                           *)
(***************************************************************************)
CodecBytes == {1, 255}
\* short payloads, the empty one, the payloads of the tests, and the
\* lengths around the wrap of the uint8_t frame size
CodecPayloads ==
    UNION {[1 .. n -> CodecBytes] : n \in 1 .. MaxLen}
      \cup {<<>>, <<16, 32, 48>>, <<170, 187, 204>>}
      \cup {Fill(UINT8_MOD - 6, 255), Fill(UINT8_MOD - 5, 255),
            Fill(UINT8_MOD - 1, 255)}

\* *buffer_size on entry: around what the frame needs, and the extremes
BufSizes(p) ==
    {0, 10, UINT8_MOD - 1, Len(p) + 3, Len(p) + 4, Len(p) + 5} \cap Byte

\* what an uninitialised destination may hold
GarbageBytes == {0, STX_BYTE, 170}

\* codec: the driver's record
\*   phase   "init", "summed", "created", "loaded"
\*   dados   the payload;  size_in  *buffer_size on entry
\*   chk     what protocol_calculate_checksum returned
\*   ret, buffer, buffer_size   what protocol_create_message returned and left
InitCodec ==
    /\ T4Idle
    /\ handler = protocol_init
    /\ twin = protocol_init
    /\ in_byte = 0
    /\ fed = 0
    /\ stream = <<>>
    /\ outcomes = <<>>
    /\ unit = NoUnit
    /\ \E p \in CodecPayloads, g \in GarbageBytes :
          \E size \in BufSizes(p) :
             codec = [ phase |-> "init", dados |-> p, size_in |-> size,
                       chk |-> 0, ret |-> 0,
                       buffer |-> ArrayOf(BUFFER_CAP, g),
                       buffer_size |-> size ]

CalcChecksum ==
    /\ codec.phase = "init"
    /\ codec' = [codec EXCEPT
                   !.phase = "summed",
                   !.chk = protocol_calculate_checksum(codec.dados,
                                                       Len(codec.dados))]
    /\ UNCHANGED <<handler, in_byte, fed, stream, outcomes, unit, twin>>
    /\ UNCHANGED t4vars

CreateMessage ==
    /\ codec.phase = "summed"
    /\ LET r == protocol_create_message(codec.dados, Len(codec.dados),
                                        codec.buffer, codec.size_in)
       IN  codec' = [codec EXCEPT !.phase = "created",
                                  !.ret = r.ret,
                                  !.buffer = r.buffer,
                                  !.buffer_size = r.buffer_size]
    /\ UNCHANGED <<handler, in_byte, fed, stream, outcomes, unit, twin>>
    /\ UNCHANGED t4vars

\* the caller takes buffer[0 .. buffer_size - 1] as the frame
LoadProduced ==
    /\ codec.phase = "created"
    /\ codec.ret = PROTOCOL_SUCCESS
    /\ codec' = [codec EXCEPT !.phase = "loaded"]
    /\ stream' = Prefix(codec.buffer, codec.buffer_size)
    /\ outcomes' = <<>>
    /\ UNCHANGED <<handler, in_byte, fed, unit, twin>>
    /\ UNCHANGED t4vars

NextCodec == CalcChecksum \/ CreateMessage \/ LoadProduced \/ Feed

SpecCodec == InitCodec /\ [][NextCodec]_vars

(***************************************************************************)
(* C1  Round trip: the frame produced by protocol_create_message for a     *)
(*     payload of length 1..255, fed byte by byte to a freshly initialised *)
(*     parser, is answered Waiting for every byte but the last and         *)
(*     Complete on the last; the parser then reports message ready with    *)
(*     the data count and the data bytes of the payload.                   *)
(***************************************************************************)
C1_RoundTrip ==
    (codec.phase = "loaded" /\ stream = <<>>) =>
       /\ outcomes = WaitingThen(codec.buffer_size, PROTOCOL_SUCCESS)
       /\ outcomes # <<>>
       /\ Delivered(handler, codec.dados)

(***************************************************************************)
(* C7  On success protocol_create_message leaves a frame of exactly        *)
(*     payload.length + 4 bytes: 0x02, the length, the payload in order,   *)
(*     the checksum sum(payload) mod 256, 0x03; and the size it reports is *)
(*     payload.length + 4.                                                 *)
(***************************************************************************)
C7_FrameLayout ==
    (codec.phase \in {"created", "loaded"} /\ codec.ret = PROTOCOL_SUCCESS) =>
       /\ codec.buffer_size = Len(codec.dados) + 4
       /\ Prefix(codec.buffer, Len(codec.dados) + 4) = WireFrame(codec.dados)

(***************************************************************************)
(* C8  protocol_calculate_checksum returns the sum of the payload bytes    *)
(*     modulo 256 for every payload of length 0..255 (0 for the empty      *)
(*     payload, 1 for 255 bytes of 0xFF).                                  *)
(***************************************************************************)
C8_Checksum ==
    codec.phase # "init" =>
       codec.chk = SumBytes(codec.dados) % UINT8_MOD

\* the checksum of 255 bytes of 0xFF was computed: 65025 mod 256 = 1
C8_Witness ==
    /\ codec.phase = "summed"
    /\ codec.dados = Fill(UINT8_MOD - 1, 255)
    /\ codec.chk = 1

(***************************************************************************)
(* C14 For a payload of length 1..255 and a destination size               *)
(*     max_frame_size, protocol_create_message fails with the              *)
(*     buffer-too-small error (PROTOCOL_ERROR) when max_frame_size <       *)
(*     payload.length + 4 and succeeds when max_frame_size >=              *)
(*     payload.length + 4.                                                 *)
(***************************************************************************)
C14_BufferTooSmall ==
    (codec.phase \in {"created", "loaded"} /\ Len(codec.dados) >= 1) =>
       IF codec.size_in < Len(codec.dados) + 4
       THEN codec.ret = PROTOCOL_ERROR
       ELSE codec.ret = PROTOCOL_SUCCESS

(***************************************************************************)
(* C15 A call of protocol_create_message that fails, with                  *)
(*     PROTOCOL_INVALID_PARAM for an empty payload or with PROTOCOL_ERROR  *)
(*     for a destination too small, leaves the destination buffer and the  *)
(*     caller's size value as they were before the call.                   *)
(***************************************************************************)
C15_FailureWritesNothing ==
    [][(/\ codec.phase = "summed"
        /\ codec'.phase = "created"
        /\ codec'.ret # PROTOCOL_SUCCESS)
       => /\ codec'.buffer = codec.buffer
          /\ codec'.buffer_size = codec.size_in
          /\ codec'.ret = IF codec.dados = <<>>
                          THEN PROTOCOL_INVALID_PARAM
                          ELSE PROTOCOL_ERROR]_vars

\* a 2-byte payload was refused for a destination of 5 bytes that held
\* no start marker
C15_Witness ==
    /\ codec.phase = "created"
    /\ codec.ret = PROTOCOL_ERROR
    /\ Len(codec.dados) = 2
    /\ codec.size_in = 5
    /\ Get(codec.buffer, 0) # STX_BYTE

(***************************************************************************)
(* SpecTwin: two ProtocolHandler instances.  After protocol_init each is   *)
(* given its own calls of protocol_process_byte and protocol_reset (first  *)
(* the one, then the other), each ending with the parser awaiting a start  *)
(* marker; from then on every byte is passed to both.  in_byte, stream,    *)
(* outcomes and codec are not used.                                        *)
(***************************************************************************)
\* bytes of a history, and bytes passed to both
MaxHistory == 5
MaxSuffix == 5
TwinBytes == {0, 1, STX_BYTE, ETX_BYTE}

InitTwin ==
    /\ T4Idle
    /\ handler = protocol_init
    /\ twin = protocol_init
    /\ in_byte = 0
    /\ fed = 0
    /\ stream = <<>>
    /\ outcomes = <<>>
    /\ unit = [kind |-> "first"]
    /\ codec = NoCodec

\* protocol_process_byte(&handler, b), in the first history
FirstCall ==
    /\ unit.kind = "first"
    /\ fed < MaxHistory
    /\ \E b \in TwinBytes : handler' = protocol_process_byte(handler, b)
    /\ fed' = fed + 1
    /\ UNCHANGED <<in_byte, stream, outcomes, unit, codec, twin>>
    /\ UNCHANGED t4vars

\* protocol_reset(&handler), in the first history
FirstReset ==
    /\ unit.kind = "first"
    /\ handler' = protocol_reset(handler)
    /\ UNCHANGED <<in_byte, fed, stream, outcomes, unit, codec, twin>>
    /\ UNCHANGED t4vars

\* the first history ends with the parser awaiting a start marker
FirstDone ==
    /\ unit.kind = "first"
    /\ handler.current_state = ST_STX
    /\ unit' = [kind |-> "second"]
    /\ fed' = 0
    /\ UNCHANGED <<handler, in_byte, stream, outcomes, codec, twin>>
    /\ UNCHANGED t4vars

\* protocol_process_byte(&twin, b), in the second history
SecondCall ==
    /\ unit.kind = "second"
    /\ fed < MaxHistory
    /\ \E b \in TwinBytes : twin' = protocol_process_byte(twin, b)
    /\ fed' = fed + 1
    /\ UNCHANGED <<handler, in_byte, stream, outcomes, unit, codec>>
    /\ UNCHANGED t4vars

\* protocol_reset(&twin), in the second history
SecondReset ==
    /\ unit.kind = "second"
    /\ twin' = protocol_reset(twin)
    /\ UNCHANGED <<handler, in_byte, fed, stream, outcomes, unit, codec>>
    /\ UNCHANGED t4vars

\* the second history ends with the parser awaiting a start marker
SecondDone ==
    /\ unit.kind = "second"
    /\ twin.current_state = ST_STX
    /\ unit' = [kind |-> "both"]
    /\ fed' = 0
    /\ UNCHANGED <<handler, in_byte, stream, outcomes, codec, twin>>
    /\ UNCHANGED t4vars

\* the same byte passed to both parsers
BothCall ==
    /\ unit.kind = "both"
    /\ fed < MaxSuffix
    /\ \E b \in TwinBytes :
          /\ handler' = protocol_process_byte(handler, b)
          /\ twin' = protocol_process_byte(twin, b)
    /\ fed' = fed + 1
    /\ UNCHANGED <<in_byte, stream, outcomes, unit, codec>>
    /\ UNCHANGED t4vars

NextTwin ==
    \/ FirstCall \/ FirstReset \/ FirstDone
    \/ SecondCall \/ SecondReset \/ SecondDone
    \/ BothCall

SpecTwin == InitTwin /\ [][NextTwin]_vars

(***************************************************************************)
(* C26 History independence: two parsers that were each left awaiting a    *)
(*     start marker by their own earlier calls, and are then given the     *)
(*     same bytes, return the same outcome for every byte, and when the    *)
(*     outcome is Complete both report a ready message of the same length  *)
(*     with the same payload bytes.                                        *)
(***************************************************************************)
C26_HistoryIndependent ==
    [][(unit.kind = "both" /\ fed' = fed + 1)
       => /\ handler'.last_result = twin'.last_result
          /\ handler'.last_result = PROTOCOL_SUCCESS
              => /\ protocol_message_ready(handler')
                 /\ protocol_message_ready(twin')
                 /\ protocol_get_data_count(handler') =
                       protocol_get_data_count(twin')
                 /\ Prefix(protocol_get_data(handler'),
                           protocol_get_data_count(handler')) =
                       Prefix(protocol_get_data(twin'),
                              protocol_get_data_count(twin'))]_vars

\* a frame given to both was answered Complete by parsers whose earlier
\* calls left different bytes behind
C26_Witness ==
    /\ unit.kind = "both"
    /\ handler.last_result = PROTOCOL_SUCCESS
    /\ twin.last_result = PROTOCOL_SUCCESS
    /\ protocol_get_data(handler) # protocol_get_data(twin)

(***************************************************************************)
(* SpecTimer: test_timer_functionality, with any caller.  A timer_t is     *)
(* set, stopped and read while advance_time moves the clock; here          *)
(* system_time_ms and the fields of the timer are uint32 values.           *)
(***************************************************************************)
\* advance_time calls in one run
MaxAdvances == 3

\* 1 ms, the 100 ms of the test, and the largest uint32_t
TimerDurations == {uint32(0, 1), uint32(0, 100), uint32(65535, 65535)}

\* 1 ms, the 50 and 60 ms of the test, 2^31 and 2^32 - 1
TimerSteps ==
    {uint32(0, 1), uint32(0, 50), uint32(0, 60), uint32(32768, 0),
     uint32(65535, 65535)}

InitTimer ==
    /\ T3Idle
    /\ system_time_ms = uint32(0, 0)
    /\ channel = channel_reset
    /\ tx_state = tx_state_zero
    /\ rx_state = rx_state_zero
    /\ turn = "tx"
    /\ submits = 0
    /\ tx_sends = 0
    /\ send_ret = PROTOCOL_SUCCESS
    /\ test_timer = timer_unset
    /\ advanced = NoAdvance
    /\ attempt = NoAttempt

\* timer_set(&timer, d)
TimerSet ==
    /\ \E d \in TimerDurations :
          test_timer' = timer_set(test_timer, system_time_ms, d)
    /\ advanced' = [advanced EXCEPT !.over = FALSE, !.low = uint32(0, 0)]
    /\ UNCHANGED <<system_time_ms, channel, tx_state, rx_state, turn,
                   submits, tx_sends, send_ret, attempt>>
    /\ UNCHANGED t3vars

\* timer_stop(&timer)
TimerStop ==
    /\ test_timer.active
    /\ test_timer' = timer_stop(test_timer)
    /\ UNCHANGED <<system_time_ms, channel, tx_state, rx_state, turn,
                   submits, tx_sends, send_ret, advanced,
                   attempt>>
    /\ UNCHANGED t3vars

\* advance_time(ms)
AdvanceClock ==
    /\ advanced.calls < MaxAdvances
    /\ \E ms \in TimerSteps :
          /\ system_time_ms' = advance_time(system_time_ms, ms)
          /\ advanced' =
                [over  |-> advanced.over \/ uint32_carry(advanced.low, ms),
                 low   |-> uint32_add(advanced.low, ms),
                 calls |-> advanced.calls + 1]
    /\ UNCHANGED <<channel, tx_state, rx_state, turn, submits, tx_sends,
                   send_ret, test_timer, attempt>>
    /\ UNCHANGED t3vars

NextTimer == TimerSet \/ TimerStop \/ AdvanceClock

SpecTimer == InitTimer /\ [][NextTimer]_vars

(***************************************************************************)
(* C27 timer_expired returns true exactly when the timer is active (set    *)
(*     and not stopped since) and the time advanced since it was set is at *)
(*     least its duration: false right after timer_set with a duration     *)
(*     above 0 and after a smaller total advance, true after any total     *)
(*     advance of at least the duration, false for a stopped timer.        *)
(***************************************************************************)
C27_TimerExpiry ==
    timer_expired32(test_timer, system_time_ms)
      <=> /\ test_timer.active
          /\ \/ advanced.over
             \/ uint32_ge(advanced.low, test_timer.timeout_ms)

(***************************************************************************)
(* SpecArq: the transmitter and the receiver under protothreads_schedule,  *)
(* with a caller that submits payloads, switches the loss simulation and   *)
(* advances the clock between schedules (as the tests of t4 do).           *)
(***************************************************************************)
\* payload lengths: the short ones, the first that no longer fits the size
\* the transmitter passes to protocol_create_message, and one whose frame
\* size wraps in uint8_t
TooLongLen == (BUFFER_CAP % UINT8_MOD) - 4
WrapLen == UINT8_MOD - 4
\* with the payloads of test_timeout_and_retry and
\* test_successful_transmission
ArqPayloads ==
    {<<18, 52>>, <<170, 187, 204>>, Fill(TooLongLen, 1), Fill(WrapLen, 1)}

\* the clock advances in steps of half a timeout
AdvanceSteps == {TIMEOUT_MS \div 2}

protothreads_send_data_unchecked(tx, data, size) ==
    [ret |-> IF data = <<>> \/ size = 0
             THEN PROTOCOL_INVALID_PARAM ELSE PROTOCOL_SUCCESS,
     tx  |-> [tx EXCEPT !.data_to_send = data,
                        !.data_size = size,
                        !.retry_count = 0,
                        !.transmission_complete = FALSE,
                        !.result = 0,
                        !.timer = timer_stop(@),
                        !.lc = 0]]

\* lines 359..372: a null pointer (the empty payload here) or size 0 is
\* refused before anything is written; otherwise the transmitter is restarted
protothreads_send_data(tx, data, size) ==
    IF data = <<>> \/ size = 0
    THEN [ret |-> PROTOCOL_INVALID_PARAM, tx |-> tx]
    ELSE [ret |-> PROTOCOL_SUCCESS,
          tx  |-> [tx EXCEPT !.data_to_send = data,
                             !.data_size = size,
                             !.retry_count = 0,
                             !.transmission_complete = FALSE,
                             !.result = 0,
                             !.timer = timer_stop(@),
                             !.lc = 0]]

\* protothreads_init() on the zeroed statics, then what the tests do before
\* the first schedule: at most one protothreads_send_data and the choice of
\* channel.simulate_loss
InitArq ==
    /\ T3Idle
    /\ system_time_ms = 0
    /\ \E loss \in BOOLEAN :
          channel = [channel_reset EXCEPT !.simulate_loss = loss]
    /\ \E p \in ArqPayloads \cup {<<>>} :
          /\ tx_state = protothreads_send_data(tx_state_zero, p, Len(p)).tx
          /\ send_ret = protothreads_send_data(tx_state_zero, p, Len(p)).ret
          /\ submits = IF p = <<>> THEN 0 ELSE 1
    /\ rx_state = rx_state_zero
    /\ turn = "tx"
    /\ tx_sends = 0
    /\ test_timer = timer_unset
    /\ advanced = NoAdvance
    /\ attempt = NoAttempt

\* protothreads_schedule, first half: transmitter_thread(&tx_state)
TxTurn ==
    /\ turn = "tx"
    /\ LET r == transmitter_thread(tx_state, channel, system_time_ms)
       IN  /\ tx_state' = r.tx
           /\ channel' = r.ch
           /\ tx_sends' = r.sends
           /\ attempt' = IF attempt.done THEN attempt
                          ELSE [sent |-> attempt.sent + r.sends,
                                done |-> r.tx.transmission_complete]
    /\ turn' = "rx"
    /\ UNCHANGED <<system_time_ms, rx_state, submits, send_ret>>
    /\ UNCHANGED t3vars
    /\ UNCHANGED <<test_timer, advanced>>

\* protothreads_schedule, second half: receiver_thread(&rx_state)
RxTurn ==
    /\ turn = "rx"
    /\ LET r == receiver_thread(rx_state, channel)
       IN  /\ rx_state' = r.rx
           /\ channel' = r.ch
    /\ turn' = "tx"
    /\ UNCHANGED <<system_time_ms, tx_state, submits, tx_sends, send_ret>>
    /\ UNCHANGED t3vars
    /\ UNCHANGED <<test_timer, advanced, attempt>>

\* advance_time(ms), between two schedules.  The clock is followed only
\* while the transmitter's timer is running and has not expired: a further
\* advance changes no later timer_expired.
AdvanceTime ==
    /\ turn = "tx"
    /\ tx_state.timer.active
    /\ ~timer_expired(tx_state.timer, system_time_ms)
    /\ \E ms \in AdvanceSteps :
          /\ system_time_ms + ms <= MaxTicks * (TIMEOUT_MS \div 2)
          /\ system_time_ms' = system_time_ms + ms
    /\ UNCHANGED <<channel, tx_state, rx_state, turn, submits, tx_sends,
                   send_ret>>
    /\ UNCHANGED t3vars
    /\ UNCHANGED <<test_timer, advanced, attempt>>

\* protothreads_send_data(data, size), between two schedules
SendData ==
    /\ turn = "tx"
    /\ submits < MaxSubmits
    /\ \E p \in ArqPayloads \cup {<<>>}, size \in {0, 1} :
          LET r == protothreads_send_data(tx_state, p, size * Len(p))
          IN  /\ tx_state' = r.tx
              /\ send_ret' = r.ret
              /\ submits' = IF r.ret = PROTOCOL_SUCCESS
                            THEN submits + 1 ELSE submits
              /\ attempt' = IF r.ret = PROTOCOL_SUCCESS
                            THEN NoAttempt ELSE attempt
    /\ UNCHANGED <<system_time_ms, channel, rx_state, turn, tx_sends>>
    /\ UNCHANGED t3vars
    /\ UNCHANGED <<test_timer, advanced>>

\* channel.simulate_loss = b, between two schedules
SetLoss ==
    /\ turn = "tx"
    /\ channel' = [channel EXCEPT !.simulate_loss = ~@]
    /\ UNCHANGED <<system_time_ms, tx_state, rx_state, turn, submits,
                   tx_sends, send_ret>>
    /\ UNCHANGED t3vars
    /\ UNCHANGED <<test_timer, advanced, attempt>>

NextArq == TxTurn \/ RxTurn \/ AdvanceTime \/ SendData \/ SetLoss

SpecArq == InitArq /\ [][NextArq]_vars

\* TxTurn is the one step that takes turn from "tx" to "rx" and it can be
\* taken whenever turn = "tx"; RxTurn likewise takes it back
TxScheduled == turn = "tx" /\ turn' = "rx"
RxScheduled == turn = "rx" /\ turn' = "tx"

\* the tests call protothreads_schedule and advance_time in a loop: each
\* half of protothreads_schedule is eventually run, and the clock is
\* eventually advanced while a timer runs
FairArq ==
    /\ SpecArq
    /\ WF_turn(TxScheduled)
    /\ WF_turn(RxScheduled)
    /\ SF_vars(AdvanceTime)

protothreads_transmission_complete(tx) == tx.transmission_complete
protothreads_get_tx_result(tx) == tx.result
protothreads_message_received(rx) == rx.message_received
protothreads_get_received_data(rx) == rx.rx_data
protothreads_get_received_size(rx) == rx.expected_size


\* the sender's completion flag with the result Succeeded
Succeeded(tx) ==
    /\ protothreads_transmission_complete(tx)
    /\ protothreads_get_tx_result(tx) = PROTOCOL_SUCCESS

\* the receiver's getters give the payload p
Received(rx, p) ==
    /\ protothreads_message_received(rx)
    /\ protothreads_get_received_size(rx) = Len(p)
    /\ Prefix(protothreads_get_received_data(rx), Len(p)) = p

(***************************************************************************)
(* C2  Lossless end to end: one payload of length 1..255 was submitted,    *)
(*     the channel never drops, both threads keep being scheduled and the  *)
(*     timer never expires; then the sender eventually completes with      *)
(*     result Succeeded, and at that point the receiver reports a message  *)
(*     whose size and bytes are the submitted payload.                     *)
(***************************************************************************)
C2_LosslessDelivery ==
    [](/\ submits = 1
       /\ ~channel.simulate_loss
       /\ ~timer_expired(tx_state.timer, system_time_ms))
      => <>(/\ Succeeded(tx_state)
            /\ Received(rx_state, tx_state.data_to_send))

(***************************************************************************)
(* C3  Always-drop channel: one valid payload was submitted, the channel   *)
(*     drops every transmission, the scheduler keeps running and the clock *)
(*     keeps advancing; then the sender reaches retry_count = MAX_RETRIES  *)
(*     with the completion flag set and result Timeout, and it never       *)
(*     reports Succeeded.                                                  *)
(***************************************************************************)
C3_AlwaysDrop ==
    [](submits = 1 /\ channel.simulate_loss)
      => /\ <>(/\ tx_state.retry_count = MAX_RETRIES
               /\ tx_state.transmission_complete
               /\ tx_state.result = PROTOCOL_TIMEOUT)
         /\ []~Succeeded(tx_state)

(***************************************************************************)
(* C9  A sender turn that finds the sender awaiting the acknowledgment, a  *)
(*     positive acknowledgment pending on the channel and the timer        *)
(*     expired, leaves the sender complete with result success, the retry  *)
(*     counter as it was and nothing sent on the channel.                  *)
(***************************************************************************)
C9_AckPrecedence ==
    [][(/\ turn = "tx" /\ turn' = "rx"
        /\ tx_state.lc = LC_TX_WAIT_ACK
        /\ channel.ack_received /\ channel.ack_value = ACK_BYTE
        /\ timer_expired(tx_state.timer, system_time_ms))
       => /\ Succeeded(tx_state')
          /\ tx_state'.retry_count = tx_state.retry_count
          /\ tx_sends' = 0]_vars

(***************************************************************************)
(* C10 A sender turn taken with the completion flag set, and no submit     *)
(*     since, keeps the completion flag, the result and the retry counter, *)
(*     and sends nothing on the channel.                                   *)
(***************************************************************************)
C10_CompletionIdempotent ==
    [][(turn = "tx" /\ turn' = "rx" /\ tx_state.transmission_complete)
       => /\ tx_state'.transmission_complete
          /\ tx_state'.result = tx_state.result
          /\ tx_state'.retry_count = tx_state.retry_count
          /\ tx_sends' = 0]_vars

\* a protothreads_send_data between two schedules that changed its return
\* value or was accepted (a refused call that repeats the last return value
\* and changes nothing is a stuttering step)
SubmitStep == send_ret' # send_ret \/ submits' # submits

\* an attempt is in flight: a payload was accepted, the sender awaits the
\* acknowledgment and has not completed
InFlight(tx) ==
    /\ tx.lc = LC_TX_WAIT_ACK
    /\ ~protothreads_transmission_complete(tx)

(***************************************************************************)
(* C12 A submit made while an attempt is in flight is not accepted, and    *)
(*     the in-flight attempt (the sender's whole state) is left as it was. *)
(***************************************************************************)
C12_BusyRejected ==
    [][(InFlight(tx_state) /\ SubmitStep)
       => /\ send_ret' # PROTOCOL_SUCCESS
          /\ tx_state' = tx_state]_vars

(***************************************************************************)
(* C13 A sender turn that starts an attempt whose payload                  *)
(*     protocol_create_message refuses leaves the sender Failed: the       *)
(*     completion flag set, the result the codec's failure, and nothing    *)
(*     put on the channel.                                                 *)
(***************************************************************************)
C13_CodecFailureCompletes ==
    [][(/\ turn = "tx" /\ turn' = "rx"
        /\ tx_state.lc = 0 /\ submits >= 1
        /\ ~tx_state.transmission_complete
        /\ protocol_create_message(tx_state.data_to_send,
               tx_state.data_size, tx_state.message_buffer,
               BUFFER_CAP % UINT8_MOD).ret # PROTOCOL_SUCCESS)
       => /\ protothreads_transmission_complete(tx_state')
          /\ protothreads_get_tx_result(tx_state') =
                protocol_create_message(tx_state.data_to_send,
                   tx_state.data_size, tx_state.message_buffer,
                   BUFFER_CAP % UINT8_MOD).ret
          /\ tx_sends' = 0
          /\ channel' = channel]_vars

(***************************************************************************)
(* C16 A submit refused with the invalid-parameter code (empty or null     *)
(*     payload) changes nothing else: the sender, an attempt in flight     *)
(*     included, the receiver, the channel and the clock stay as they      *)
(*     were, and no payload is counted as accepted.                        *)
(***************************************************************************)
C16_InvalidSubmitNoEffect ==
    [][(send_ret = PROTOCOL_SUCCESS /\ send_ret' = PROTOCOL_INVALID_PARAM)
       => /\ tx_state' = tx_state
          /\ rx_state' = rx_state
          /\ channel' = channel
          /\ system_time_ms' = system_time_ms
          /\ submits' = submits]_vars

\* a refused submit was made after an accepted one, with the attempt still
\* in flight after a retry
C16_Witness ==
    /\ send_ret = PROTOCOL_INVALID_PARAM
    /\ submits = 1
    /\ InFlight(tx_state)
    /\ tx_state.retry_count = 1

\* the sender awaits the acknowledgment and its turn finds a negative
\* acknowledgment pending, or none pending and the timer expired
RetryTrigger(tx, ch, now) ==
    /\ tx.lc = LC_TX_WAIT_ACK
    /\ \/ ch.ack_received /\ ch.ack_value = NACK_BYTE
       \/ ~ch.ack_received /\ timer_expired(tx.timer, now)

C21_OneUnitPerStep ==
    [][/\ RxScheduled
          => /\ channel'.rx_pos - channel.rx_pos \in {0, 1}
             /\ channel'.rx_size = channel.rx_size
       /\ TxScheduled
          => /\ tx_sends' <= 1
             /\ tx_state'.retry_count \in
                   {0, tx_state.retry_count, tx_state.retry_count + 1}]_vars


(***************************************************************************)
(* C22 The retry counter of the sender is always between 0 and             *)
(*     MAX_RETRIES, and from the acceptance of a payload by                *)
(*     protothreads_send_data to the completion of its transmission the    *)
(*     frame is put on the channel at most MAX_RETRIES times.              *)
(***************************************************************************)
C22_RetriesBounded ==
    /\ tx_state.retry_count \in 0..MAX_RETRIES
    /\ attempt.sent <= MAX_RETRIES

C22_Witness ==
    /\ attempt.done
    /\ attempt.sent = MAX_RETRIES
    /\ tx_state.retry_count = MAX_RETRIES
    /\ tx_state.transmission_complete
    /\ tx_state.result = PROTOCOL_TIMEOUT


(***************************************************************************)
(* C23 No false success: with one payload submitted since                  *)
(*     protothreads_init, whenever the sender's completion flag is set     *)
(*     with the result PROTOCOL_SUCCESS the receiver has accepted a frame  *)
(*     (message_received, result PROTOCOL_SUCCESS) whose size and bytes    *)
(*     are those of the submitted payload.                                 *)
(***************************************************************************)
C23_NoFalseSuccess ==
    (submits = 1 /\ Succeeded(tx_state))
      => /\ Received(rx_state, tx_state.data_to_send)
         /\ rx_state.result = PROTOCOL_SUCCESS

C23_Witness ==
    /\ submits = 1
    /\ Succeeded(tx_state)
    /\ tx_state.retry_count = 2
    /\ tx_state.data_size = 3
    /\ Received(rx_state, <<170, 187, 204>>)


(***************************************************************************)
(* C24 No false failure: whenever the sender's completion flag is set with *)
(*     the result PROTOCOL_TIMEOUT, the receiver has not accepted the      *)
(*     submitted payload (it sent no ACK for it), however the scheduling   *)
(*     turns and the clock advances interleave.                            *)
(***************************************************************************)
C24_NoFalseFailure ==
    (/\ submits = 1
     /\ protothreads_transmission_complete(tx_state)
     /\ protothreads_get_tx_result(tx_state) = PROTOCOL_TIMEOUT)
      => ~(/\ Received(rx_state, tx_state.data_to_send)
           /\ rx_state.result = PROTOCOL_SUCCESS)

(***************************************************************************)
(* SpecDropFirst: test_retry_then_success.  One payload is submitted with  *)
(* channel.simulate_loss set; the caller schedules the two threads,        *)
(* advances the clock and, once, clears simulate_loss.                     *)
(***************************************************************************)
\* lines 516..522: protothreads_init, protothreads_send_data,
\* channel.simulate_loss = true
InitDropFirst ==
    /\ T3Idle
    /\ system_time_ms = 0
    /\ channel = [channel_reset EXCEPT !.simulate_loss = TRUE]
    /\ \E p \in ArqPayloads :
          /\ tx_state = protothreads_send_data(tx_state_zero, p, Len(p)).tx
          /\ send_ret = protothreads_send_data(tx_state_zero, p, Len(p)).ret
    /\ submits = 1
    /\ rx_state = rx_state_zero
    /\ turn = "tx"
    /\ tx_sends = 0
    /\ test_timer = timer_unset
    /\ advanced = NoAdvance
    /\ attempt = NoAttempt

\* line 533: channel.simulate_loss = false, between two schedules, after
\* the schedule that made the first transmission
StopLoss ==
    /\ turn = "tx"
    /\ channel.simulate_loss
    /\ tx_state.lc = LC_TX_WAIT_ACK
    /\ channel' = [channel EXCEPT !.simulate_loss = FALSE]
    /\ UNCHANGED <<system_time_ms, tx_state, rx_state, turn, submits,
                   tx_sends, send_ret>>
    /\ UNCHANGED t3vars
    /\ UNCHANGED <<test_timer, advanced, attempt>>

NextDropFirst == TxTurn \/ RxTurn \/ AdvanceTime \/ StopLoss

SpecDropFirst == InitDropFirst /\ [][NextDropFirst]_vars

\* the loops of the test keep calling protothreads_schedule and
\* advance_time
FairDropFirst ==
    /\ SpecDropFirst
    /\ WF_turn(TxScheduled)
    /\ WF_turn(RxScheduled)
    /\ SF_vars(AdvanceTime)

(***************************************************************************)
(* C18 The channel drops exactly the first transmission: simulate_loss is  *)
(*     set when the payload is submitted and is cleared before the timer   *)
(*     of the first transmission is seen expired, so that every later      *)
(*     transmission is delivered; and no acknowledgment is left pending    *)
(*     until the timer expires.  Then the sender eventually completes with *)
(*     result Succeeded and retry counter 1, and at that point the         *)
(*     receiver reports the submitted payload.                             *)
(***************************************************************************)
C18_DropFirstOneRetry ==
    [](/\ channel.simulate_loss
           => ~timer_expired(tx_state.timer, system_time_ms)
       /\ channel.ack_received
           => ~timer_expired(tx_state.timer, system_time_ms))
      => <>(/\ Succeeded(tx_state)
            /\ tx_state.retry_count = 1
            /\ Received(rx_state, tx_state.data_to_send))

(***************************************************************************)
(* SpecRx: the receiver under protothreads_schedule with no payload        *)
(* submitted.  The caller puts bytes on the channel with channel_send      *)
(* (whole frames, pieces of frames, a start marker followed by a zero      *)
(* length, a frame with a wrong checksum) and takes the acknowledgment     *)
(* with channel_ack_received, between two schedules.                       *)
(***************************************************************************)
RxPayloads == {<<18, 52>>, <<170>>}

\* a valid frame with its checksum byte replaced by the next value
BadChkFrame(p) ==
    <<STX_BYTE, Len(p)>> \o p
      \o <<(SumBytes(p) + 1) % UINT8_MOD, ETX_BYTE>>

\* a start marker followed by the length byte 0
ZeroLenHead == <<STX_BYTE, 0>>

RxWhole ==
    {WireFrame(p) : p \in RxPayloads}
      \cup {BadChkFrame(p) : p \in RxPayloads}
      \cup {ZeroLenHead}

\* what one channel_send may carry: a whole sequence,
\* or the start marker and length of one, or what follows them
RxPieces ==
    RxWhole
      \cup {SubSeq(f, 1, 2) : f \in RxWhole}
      \cup {SubSeq(f, 3, Len(f)) : f \in RxWhole \ {ZeroLenHead}}

\* the argument of channel_send for the bytes f
AsArray(f) == [cap |-> Len(f), fill |-> 0, w |-> f]

\* the channel holds exactly the bytes f, none of them read yet
ChannelHolds(ch, f) ==
    /\ ch.rx_ready
    /\ ch.rx_pos = 0
    /\ ch.rx_size = Len(f)
    /\ Prefix(ch.rx_buffer, Len(f)) = f

InitRx ==
    /\ T3Idle
    /\ T4Idle

\* channel_send(data, size), between two schedules
ChannelDeliver ==
    /\ turn = "tx"
    /\ \E f \in RxPieces :
          channel' = channel_send(channel, AsArray(f), Len(f))
    /\ UNCHANGED <<system_time_ms, tx_state, rx_state, turn, submits,
                   tx_sends, send_ret>>
    /\ UNCHANGED t3vars
    /\ UNCHANGED <<test_timer, advanced, attempt>>

\* channel_ack_received(&ack), between two schedules
AckTaken ==
    /\ turn = "tx"
    /\ channel.ack_received
    /\ channel' = channel_ack_received(channel).ch
    /\ UNCHANGED <<system_time_ms, tx_state, rx_state, turn, submits,
                   tx_sends, send_ret>>
    /\ UNCHANGED t3vars
    /\ UNCHANGED <<test_timer, advanced, attempt>>

NextRx == TxTurn \/ RxTurn \/ ChannelDeliver \/ AckTaken

SpecRx == InitRx /\ [][NextRx]_vars

(***************************************************************************)
(* C11 The receiver cycles: once a frame was answered with ACK or NACK     *)
(*     (the receiver is past that answer) and the answer was taken, a      *)
(*     valid frame delivered whole on the channel is reconstructed and     *)
(*     answered with ACK by the next receiver turn.                        *)
(***************************************************************************)
C11_ReceiverCycles ==
    [][\A p \in RxPayloads :
          (/\ turn = "rx" /\ turn' = "tx"
           /\ rx_state.lc = LC_RX_YIELD
           /\ ~channel.ack_received
           /\ ChannelHolds(channel, WireFrame(p)))
          => /\ channel'.ack_received
             /\ channel'.ack_value = ACK_BYTE
             /\ Received(rx_state', p)]_vars

(***************************************************************************)
(* C17 A receiver turn that finds a start marker followed by the length    *)
(*     byte 0 emits no acknowledgment (neither ACK nor NACK), records no   *)
(*     result, and leaves the receiver waiting for a start marker.         *)
(***************************************************************************)
C17_ZeroLengthSilent ==
    [][(/\ turn = "rx" /\ turn' = "tx"
        /\ rx_state.lc \in {0, LC_RX_WAIT_STX}
        /\ ~channel.ack_received
        /\ ChannelHolds(channel, ZeroLenHead))
       => /\ ~channel'.ack_received
          /\ rx_state'.result = rx_state.result
          /\ rx_state'.lc = LC_RX_WAIT_STX]_vars

=============================================================================
